---- MODULE Spec2Model ----
(***************************************************************************)
(* A state-machine model of vis_cpu (src/src/vis_cpu/vis_cpu.py): the      *)
(* per-antenna visibility kernel.  One call of vis_cpu is one behaviour:   *)
(* argument binding, _validate_inputs, _wrangle_beams, the set-up of the   *)
(* zero arrays, then for every time sample the coordinate rotation, the    *)
(* beam evaluation, the delays, the antenna voltages and the visibility    *)
(* product, and at last the reshape/transpose of the result.               *)
(*                                                                         *)
(* Numbers.  A float is an extended real: a finite integer, nan, +inf or   *)
(* -inf, with IEEE-754 arithmetic on the non-finite values.  A complex is  *)
(* a pair of extended reals with numpy's component-wise arithmetic.  The   *)
(* inputs are chosen so that every finite intermediate value is an exact   *)
(* integer: 0.5*I is a perfect square, and the phase ang_freq*tau is a     *)
(* whole number of quarter turns, so exp(1j*phase) is a power of i.        *)
(* Arrays are sequences; the numpy index i is the sequence index i+1.      *)
(***************************************************************************)
EXTENDS Integers, Sequences, FiniteSets, TLC

(***************************************************************************)
(* Bounds of the model.                                                    *)
(***************************************************************************)
MaxAnt == 2
MaxSrc == 2
MaxTime == 2
MaxBeam == 2

(***************************************************************************)
(* Extended reals (numpy float32/float64 values).                          *)
(***************************************************************************)
Fin(n) == [k |-> "fin", n |-> n]
NaN == [k |-> "nan", n |-> 0]
PInf == [k |-> "pinf", n |-> 0]
NInf == [k |-> "ninf", n |-> 0]

IsNaN(x) == x.k = "nan"
IsInf(x) == x.k \in {"pinf", "ninf"}
IsFinite(x) == x.k = "fin"

\* sign of an extended real that is not nan: -1, 0 or 1
XSgn(x) ==
    CASE x.k = "pinf" -> 1
      [] x.k = "ninf" -> -1
      [] OTHER -> IF x.n > 0 THEN 1 ELSE IF x.n < 0 THEN -1 ELSE 0

XNeg(x) ==
    CASE x.k = "fin" -> Fin(-x.n)
      [] x.k = "pinf" -> NInf
      [] x.k = "ninf" -> PInf
      [] OTHER -> NaN

\* IEEE addition: nan is absorbing, inf + (-inf) = nan
XAdd(x, y) ==
    IF IsNaN(x) \/ IsNaN(y) THEN NaN
    ELSE IF IsFinite(x) /\ IsFinite(y) THEN Fin(x.n + y.n)
    ELSE IF IsInf(x) /\ IsInf(y) THEN (IF x.k = y.k THEN x ELSE NaN)
    ELSE IF IsInf(x) THEN x ELSE y

XSub(x, y) == XAdd(x, XNeg(y))

\* IEEE multiplication: nan is absorbing, inf * 0 = nan
XMul(x, y) ==
    IF IsNaN(x) \/ IsNaN(y) THEN NaN
    ELSE IF IsFinite(x) /\ IsFinite(y) THEN Fin(x.n * y.n)
    ELSE IF XSgn(x) * XSgn(y) = 0 THEN NaN
    ELSE IF XSgn(x) * XSgn(y) > 0 THEN PInf ELSE NInf

\* the comparison x > 0; every comparison with nan is false
XGt0(x) == x.k = "pinf" \/ (x.k = "fin" /\ x.n > 0)

\* np.sqrt on a real: nan for a negative argument (no error is raised)
XSqrt(x) ==
    CASE x.k = "nan" -> NaN
      [] x.k = "pinf" -> PInf
      [] x.k = "ninf" -> NaN
      [] OTHER -> IF x.n < 0 THEN NaN
                  ELSE Fin(CHOOSE r \in 0..x.n : r * r = x.n)

\* 0.5 * x, for the even intensities of the model
XHalf(x) == IF IsFinite(x) THEN Fin(x.n \div 2) ELSE x

(***************************************************************************)
(* Complex numbers (numpy complex64/complex128 values).                    *)
(***************************************************************************)
Cx(re, im) == [re |-> re, im |-> im]
CInt(a, b) == Cx(Fin(a), Fin(b))
CZero == CInt(0, 0)
CNaN == Cx(NaN, NaN)
CFromReal(x) == Cx(x, Fin(0))

CIsFinite(z) == IsFinite(z.re) /\ IsFinite(z.im)
CIsNaN(z) == IsNaN(z.re) \/ IsNaN(z.im)
CIsInf(z) == IsInf(z.re) \/ IsInf(z.im)

CConj(z) == Cx(z.re, XNeg(z.im))
CAdd(a, b) == Cx(XAdd(a.re, b.re), XAdd(a.im, b.im))
CMul(a, b) ==
    Cx(XSub(XMul(a.re, b.re), XMul(a.im, b.im)),
       XAdd(XMul(a.re, b.im), XMul(a.im, b.re)))

\* IEEE equality of two complex numbers: nan equals nothing, not even itself
CEq(a, b) == CIsFinite(a) /\ CIsFinite(b) /\ a = b

\* exp(1j * x) for a phase x counted in quarter turns: i^x; a non-finite
\* phase gives nan + nan j
CExpI(x) ==
    IF ~IsFinite(x) THEN CNaN
    ELSE CASE x.n % 4 = 0 -> CInt(1, 0)
           [] x.n % 4 = 1 -> CInt(0, 1)
           [] x.n % 4 = 2 -> CInt(-1, 0)
           [] OTHER -> CInt(0, -1)

(***************************************************************************)
(* Array helpers.                                                          *)
(***************************************************************************)
At(s, i) == s[i + 1]
Idx(n) == 0 .. (n - 1)
RECURSIVE XSum(_)
\* sum of a sequence of extended reals, in index order
XSum(s) == IF s = <<>> THEN Fin(0) ELSE XAdd(XSum(SubSeq(s, 1, Len(s) - 1)), s[Len(s)])

RECURSIVE CSum(_)
\* sum of a sequence of complex numbers, in index order
CSum(s) == IF s = <<>> THEN CZero ELSE CAdd(CSum(SubSeq(s, 1, Len(s) - 1)), s[Len(s)])


RECURSIVE Prod(_)
\* number of elements of an array of the given shape
Prod(shape) == IF shape = <<>> THEN 1 ELSE Head(shape) * Prod(Tail(shape))

RECURSIVE Ravel(_, _)
\* row-major (C order) offset of the index tuple idx in an array of `shape`
Ravel(shape, idx) ==
    IF shape = <<>> THEN 0
    ELSE Head(idx) * Prod(Tail(shape)) + Ravel(Tail(shape), Tail(idx))

RECURSIVE Unravel(_, _)
\* the index tuple at row-major offset k of an array of `shape`
Unravel(shape, k) ==
    IF shape = <<>> THEN <<>>
    ELSE <<k \div Prod(Tail(shape))>>
         \o Unravel(Tail(shape), k % Prod(Tail(shape)))

\* an ndarray: its shape and its elements in row-major order
NdArray(shape, data) == [shape |-> shape, data |-> data]
NdAt(a, idx) == At(a.data, Ravel(a.shape, idx))
NdZeros(shape) == NdArray(shape, [k \in 1..Prod(shape) |-> CZero])

\* ndarray.transpose(perm): element idx of the result is element idx' of a,
\* where idx'[perm[d]] = idx[d]
NdTranspose(a, perm) ==
    LET n == Len(perm)
        newshape == [d \in 1..n |-> a.shape[perm[d] + 1]]
        old(idx) == [e \in 1..n |-> idx[CHOOSE d \in 1..n : perm[d] + 1 = e]]
    IN  NdArray(newshape,
                [k \in 1..Prod(newshape) |->
                    NdAt(a, old(Unravel(newshape, k - 1)))])

\* ndarray.reshape / assignment to .shape: same elements, new shape
NdReshape(a, shape) == NdArray(shape, a.data)

RECURSIVE Mask(_, _)
\* boolean-mask selection s[mask]: the elements of s whose mask entry is true
Mask(s, mask) ==
    IF s = <<>> THEN <<>>
    ELSE (IF Head(mask) THEN <<Head(s)>> ELSE <<>>) \o Mask(Tail(s), Tail(mask))

(***************************************************************************)
(* The inputs of the model.                                                *)
(***************************************************************************)
XVec(v) == [i \in 1..Len(v) |-> Fin(v[i])]

\* eq2top rotation matrices: the identity, and the half turn about the
\* east axis that sends (e, n, u) to (e, -n, -u)
RotId == <<XVec(<<1, 0, 0>>), XVec(<<0, 1, 0>>), XVec(<<0, 0, 1>>)>>
RotFlip == <<XVec(<<1, 0, 0>>), XVec(<<0, -1, 0>>), XVec(<<0, 0, -1>>)>>
RotSet == {RotId, RotFlip}

\* the catalogue of sources: direction (ECI components) and intensity.
\* Source 3 lies exactly on the horizon under both rotations; source 4 has
\* a negative intensity.
SrcCat ==
    << [crd |-> <<1, 0, 1>>, I |-> 2],
       [crd |-> <<0, 1, -1>>, I |-> 8],
       [crd |-> <<1, 1, 0>>, I |-> 2],
       [crd |-> <<0, 1, 1>>, I |-> -2] >>

RECURSIVE SortedSeq(_)
\* the elements of a finite set of integers in increasing order
SortedSeq(S) ==
    IF S = {} THEN <<>>
    ELSE LET m == CHOOSE x \in S : \A y \in S : x <= y
         IN  <<m>> \o SortedSeq(S \ {m})

\* sky models: at most MaxSrc sources of the catalogue, in catalogue order
Skies ==
    { SortedSeq(S) : S \in { T \in SUBSET (1..Len(SrcCat)) : Cardinality(T) <= MaxSrc } }

\* crd_eq, shape (3, NSRCS), and I_sky, shape (NSRCS,), of a sky model
CrdEqOf(sky) == [c \in 1..3 |-> [s \in 1..Len(sky) |-> Fin(SrcCat[sky[s]].crd[c])]]
ISkyOf(sky) == [s \in 1..Len(sky) |-> Fin(SrcCat[sky[s]].I)]

\* sequences of at most n elements of S
SeqsUpTo(S, n) == UNION { [1..m -> S] : m \in 0..n }

\* antenna positions of the reference test: antenna a at (a, a, 0)
AntPosOf(na) == [a \in 1..na |-> XVec(<<a - 1, a - 1, 0>>)]

\* beam objects: beam_type, Npols, polarization_array and the response
Beam(type, npols, pols, resp) ==
    [beam_type |-> type, Npols |-> npols, polarization_array |-> pols, resp |-> resp]
PUnit == Beam("power", 1, <<-5>>, "unit")
PTaper == Beam("power", 1, <<-6>>, "taper")
PHot == Beam("power", 1, <<-5>>, "hot")
PNeg == Beam("power", 1, <<-6>>, "neg")
PTwoPol == Beam("power", 2, <<-5, -6>>, "unit")
PCross == Beam("power", 1, <<-7>>, "unit")
EUnit == Beam("efield", 1, <<>>, "eunit")
ETaper == Beam("efield", 1, <<>>, "etaper")
EHot == Beam("efield", 1, <<>>, "ehot")

PowerBeams == {PUnit, PTaper, PHot, PNeg}
EfieldBeams == {EUnit, ETaper, EHot}
AnyBeams == {PUnit, PTwoPol, PCross, EUnit}

\* conversions.enu_to_az_za: the azimuth and zenith angle of the direction
\* with east component e and north component n.  The two angles name the
\* direction; the model keeps them as the pair that determines them.
enu_to_az_za(e, n) == <<e, n>>

\* the response of a beam object at one direction: element [ax, 0, feed, 0]
\* of bm.interp(az_array, za_array, freq_array)[0].  A power beam gives a
\* real number, an electric-field beam a complex one.
BeamResponse(bm, ax, feed, az_za) ==
    LET e == az_za[1].n
        n == az_za[2].n
    IN
    CASE bm.resp = "unit" -> CFromReal(Fin(1))
      [] bm.resp = "taper" -> CFromReal(IF e = 0 THEN Fin(4) ELSE Fin(1))
      [] bm.resp = "hot" -> CFromReal(IF e = 1 THEN PInf ELSE Fin(1))
      [] bm.resp = "neg" -> CFromReal(IF n = -1 THEN Fin(-4) ELSE Fin(4))
      [] bm.resp = "eunit" -> IF ax = feed THEN CInt(1, 0) ELSE CZero
      [] bm.resp = "etaper" ->
            (CASE ax = 0 /\ feed = 0 -> CInt(1, 0)
               [] ax = 0 /\ feed = 1 -> IF e = 1 THEN CInt(0, 1) ELSE CZero
               [] ax = 1 /\ feed = 0 -> IF n = 0 THEN CInt(2, 0) ELSE CInt(0, -1)
               [] OTHER -> CInt(1, 1))
      [] OTHER ->
            IF ax = 1 /\ feed = 0 /\ e = 0 THEN CNaN
            ELSE IF ax = feed THEN CInt(1, 0) ELSE CZero

(***************************************************************************)
(* The state: the arguments of the call, the control point, and the local  *)
(* variables of vis_cpu.                                                   *)
(***************************************************************************)
VARIABLES
    args,           \* the arguments of the call (never modified)
    pc,             \* control point
    err,            \* the exception raised, if any, and where
    nax, nfeed, nant, ntimes, complex_dtype,
    beam_list, nbeam, beam_idx,
    Isqrt, antpos, crd_eq, ang_freq, vis,
    t, crd_top, above_horizon, tx, ty, nsrcs_up, isqrt,
    A_s, tau, v,
    result,         \* the returned array, once pc = "done"
    work            \* how many rotations, beam evaluations, voltage
                    \* matrices and products have been executed

dimV == <<nax, nfeed, nant, ntimes, complex_dtype>>
beamV == <<beam_list, nbeam, beam_idx>>
setupV == <<Isqrt, antpos, crd_eq, ang_freq>>
rotV == <<crd_top, above_horizon, tx, ty, nsrcs_up, isqrt>>
vars == <<args, pc, err, nax, nfeed, nant, ntimes, complex_dtype,
          beam_list, nbeam, beam_idx, Isqrt, antpos, crd_eq, ang_freq, vis,
          t, crd_top, above_horizon, tx, ty, nsrcs_up, isqrt, A_s, tau, v,
          result, work>>

NoErr == [kind |-> "", stage |-> ""]
Raised(kind, stage) == [kind |-> kind, stage |-> stage]
EmptyNd == NdArray(<<0>>, <<>>)

(***************************************************************************)
(* Argument binding: the signature of vis_cpu.                             *)
(***************************************************************************)
\* Every parameter is keyword-only; beam_list has no default; the signature
\* has no bm_cube parameter and no **kwargs.  Python raises TypeError for a
\* positional argument, for an unknown keyword and for a missing required
\* keyword.
BindFails(a) == a.positional \/ a.bm_cube \/ a.beam_list_kw = "absent"

(***************************************************************************)
(* _validate_inputs                                                        *)
(***************************************************************************)
\* the exception _validate_inputs raises on these arguments, "" for none
ValidateError(a) ==
    IF a.precision \notin {1, 2} THEN "AssertionError"
    ELSE IF Len(a.antpos_shape) # 2 THEN "ValueError"
    ELSE IF a.antpos_shape[2] # 3 THEN "AssertionError"
    ELSE IF Len(a.eq2tops_shape) # 3 THEN "ValueError"
    ELSE IF ~(a.eq2tops_shape[2] = 3 /\ a.eq2tops_shape[3] = 3) THEN "AssertionError"
    ELSE IF Len(a.crd_eq_shape) # 2 THEN "ValueError"
    ELSE IF a.crd_eq_shape[1] # 3 THEN "AssertionError"
    ELSE IF ~(Len(a.I_sky_shape) = 1 /\ a.I_sky_shape[1] = a.crd_eq_shape[2])
         THEN "AssertionError"
    ELSE ""

\* number of polarization axes and feeds
NumFeeds(pol) == IF pol THEN 2 ELSE 1

(***************************************************************************)
(* _wrangle_beams                                                          *)
(***************************************************************************)
\* the beam-index map derived when none is supplied; ok is false when the
\* number of beams is neither 1 nor the number of antennas
DeriveBeamIdx(nb, na) ==
    IF nb = 1 THEN [ok |-> TRUE, idx |-> [a \in 1..na |-> 0]]
    ELSE IF nb = na THEN [ok |-> TRUE, idx |-> [a \in 1..na |-> a - 1]]
    ELSE [ok |-> FALSE, idx |-> <<>>]

\* mutant of BeamIdxRangeOK: the upper bound is off by one
BeamIdxRangeOffByOne(bi, nb) ==
    \A k \in 1..Len(bi.data) : 0 <= bi.data[k] /\ bi.data[k] <= nb

\* the two assertions on a supplied beam-index map
BeamIdxShapeOK(bi, na) == bi.shape = <<na>>
BeamIdxRangeOK(bi, nb) == \A k \in 1..Len(bi.data) : 0 <= bi.data[k] /\ bi.data[k] < nb

\* mutant of WrongBeamType: the polarization of a power beam is not looked at
WrongBeamTypeAnyPol(pol, b) ==
    IF pol THEN b.beam_type # "efield"
    ELSE b.beam_type # "power" \/ b.Npols > 1

\* the beam of a list that fails the beam-type test of the polarization mode
WrongBeamType(pol, b) ==
    IF pol THEN b.beam_type # "efield"
    ELSE \/ b.beam_type # "power"
         \/ b.Npols > 1
         \/ b.polarization_array[1] \notin {-5, -6}

BeamTypesOK(pol, bl) == ~(\E i \in 1..Len(bl) : WrongBeamType(pol, bl[i]))

\* _wrangle_beams as a whole: the exception it raises ("" for none) and
\* the beam list, beam count and beam-index map it returns
WrangleBeams(a, na) ==
    IF a.beam_list_kw = "None"
    THEN [err |-> "TypeError", beam_list |-> <<>>, nbeam |-> 0, beam_idx |-> <<>>]
    ELSE
    LET bl == a.beam_list
        nb == Len(bl)
        derived == DeriveBeamIdx(nb, na)
        fail(kind) == [err |-> kind, beam_list |-> bl, nbeam |-> nb, beam_idx |-> <<>>]
    IN  IF a.beam_idx_kw = "None" /\ ~derived.ok THEN fail("ValueError")
        ELSE IF a.beam_idx_kw # "None" /\ ~BeamIdxShapeOK(a.beam_idx, na)
             THEN fail("AssertionError")
        ELSE IF a.beam_idx_kw # "None" /\ ~BeamIdxRangeOK(a.beam_idx, nb)
             THEN fail("AssertionError")
        ELSE IF ~BeamTypesOK(a.polarized, bl) THEN fail("ValueError")
        ELSE [err |-> "", beam_list |-> bl, nbeam |-> nb,
              beam_idx |-> IF a.beam_idx_kw = "None" THEN derived.idx
                           ELSE a.beam_idx.data]

(***************************************************************************)
(* The set-up before the time loop.                                        *)
(***************************************************************************)
\* Isqrt = np.sqrt(0.5 * I_sky): nan for a negative intensity
IsqrtOf(I_sky) == [s \in 1..Len(I_sky) |-> XSqrt(XHalf(I_sky[s]))]

\* ang_freq = 2 pi freq.  freq is counted in the unit for which the phase
\* ang_freq * tau is a number of quarter turns (with c = 1 in tau).
AngFreq(freq) == Fin(freq)

(***************************************************************************)
(* One time sample: coordinate rotation and horizon cut.                   *)
(***************************************************************************)
\* np.dot of a matrix (rows) and a matrix (rows): (m x k) . (k x n)
MatDot(A, B, n) ==
    [i \in 1..Len(A) |->
        [j \in 1..n |-> XSum([k \in 1..Len(B) |-> XMul(A[i][k], B[k][j])])]]

\* mutant of AboveHorizon: a source on the horizon counts as visible
AboveOrOnHorizon(tz) ==
    [s \in 1..Len(tz) |-> XGt0(tz[s]) \/ tz[s] = Fin(0)]

\* above_horizon = tz > 0
AboveHorizon(tz) == [s \in 1..Len(tz) |-> XGt0(tz[s])]

(***************************************************************************)
(* _evaluate_beam_cpu                                                      *)
(***************************************************************************)
\* mutant of BeamValuesInvalid: only nan is looked for
BeamValuesNaNOnly(A) == \E k \in 1..Len(A.data) : CIsNaN(A.data[k])

\* the check for invalid beam values
BeamValuesInvalid(A) ==
    \E k \in 1..Len(A.data) : CIsInf(A.data[k]) \/ CIsNaN(A.data[k])

\* interp_beam of one beam at one source: the [ax, feed] element of the
\* electric-field response, or the square root of the power response
InterpBeam(bm, pol, ax, feed, az_za) ==
    IF pol THEN BeamResponse(bm, ax, feed, az_za)
    ELSE CFromReal(XSqrt(BeamResponse(bm, 0, 0, az_za).re))

\* A_s[:, :, i] = interp_beam
AssignBeam(A, i, bm, pol, az, za) ==
    NdArray(A.shape,
        [k \in 1..Len(A.data) |->
            LET idx == Unravel(A.shape, k - 1)
            IN  IF idx[3] = i
                THEN InterpBeam(bm, pol, idx[1], idx[2],
                                <<az[idx[4] + 1], za[idx[4] + 1]>>)
                ELSE A.data[k]])

RECURSIVE EvalBeamsFrom(_, _, _, _, _, _)
\* the loop over the beams from beam i on: each beam is written into A_s and
\* the whole of A_s is then checked
EvalBeamsFrom(i, A, bl, pol, az, za) ==
    IF i = Len(bl) THEN [ok |-> TRUE, A_s |-> A]
    ELSE LET A2 == AssignBeam(A, i, bl[i + 1], pol, az, za)
         IN  IF BeamValuesInvalid(A2) THEN [ok |-> FALSE, A_s |-> A2]
             ELSE EvalBeamsFrom(i + 1, A2, bl, pol, az, za)

\* _evaluate_beam_cpu: A_s of shape (nax, nfeed, nbeam, nsrcs_up), or the
\* ValueError (ok = FALSE)
EvaluateBeamCpu(bl, e, n, pol, nb, nx, nf, nup) ==
    LET dirs == [s \in 1..nup |-> enu_to_az_za(e[s], n[s])]
    IN  EvalBeamsFrom(0, NdZeros(<<nx, nf, nb, nup>>), bl, pol,
                      [s \in 1..nup |-> dirs[s][1]], [s \in 1..nup |-> dirs[s][2]])

(***************************************************************************)
(* get_antenna_vis                                                         *)
(***************************************************************************)
\* whether numpy accepts i as an index into an axis of length n
IndexOK(i, n) == -n <= i /\ i < n
\* the position a valid numpy index names: negative indices count from the end
WrapIndex(i, n) == IF i < 0 THEN i + n ELSE i

\* v = np.exp(1.0j * (ang_freq * tau)) * Isqrt, shape (nant, nsrcs_up)
PhaseVoltage(w, dly, amp) ==
    [a \in 1..Len(dly) |->
        [s \in 1..Len(amp) |->
            CMul(CExpI(XMul(w, dly[a][s])), CFromReal(amp[s]))]]

\* v = A_s[:, beam_idx] * v[np.newaxis, :, np.newaxis, :], then reshaped to
\* (nfeed * nant, nax * nsrcs_up).  A is A_s after the transpose, of shape
\* (nfeed, nbeam, nax, nsrcs_up).
GetAntennaVis(A, w, dly, amp, bidx, nf, na, nx, nup) ==
    LET v0 == PhaseVoltage(w, dly, amp)
        shape4 == <<nf, na, nx, nup>>
        v4 == NdArray(shape4,
                [k \in 1..Prod(shape4) |->
                    LET idx == Unravel(shape4, k - 1)
                        b == WrapIndex(bidx[idx[2] + 1], A.shape[2])
                    IN  CMul(NdAt(A, <<idx[1], b, idx[3], idx[4]>>),
                             v0[idx[2] + 1][idx[4] + 1])])
    IN  NdReshape(v4, <<nf * na, nx * nup>>)

(***************************************************************************)
(* The visibility product and the output.                                  *)
(***************************************************************************)
\* mutant of ConjDot: v.dot(v.conj().T), the conjugate on the other factor
DotConj(m) ==
    LET rows == m.shape[1]
        cols == m.shape[2]
    IN  NdArray(<<rows, rows>>,
            [k \in 1..(rows * rows) |->
                LET i == (k - 1) \div rows
                    j == (k - 1) % rows
                IN  CSum([c \in 1..cols |->
                        CMul(NdAt(m, <<i, c - 1>>), CConj(NdAt(m, <<j, c - 1>>)))])])

\* v.conj().dot(v.T): entry (i, j) is the sum over k of conj(v[i,k]) v[j,k]
ConjDot(m) ==
    LET rows == m.shape[1]
        cols == m.shape[2]
    IN  NdArray(<<rows, rows>>,
            [k \in 1..(rows * rows) |->
                LET i == (k - 1) \div rows
                    j == (k - 1) % rows
                IN  CSum([c \in 1..cols |->
                        CMul(CConj(NdAt(m, <<i, c - 1>>)), NdAt(m, <<j, c - 1>>))])])

\* mutant of SetSlice: vis[:] = p, the product is written into every slice
SetEverySlice(a, tt, p) ==
    NdArray(a.shape,
        [k \in 1..Len(a.data) |-> NdAt(p, Tail(Unravel(a.shape, k - 1)))])

\* vis[tt] = p: the elements whose first index is tt are replaced
SetSlice(a, tt, p) ==
    NdArray(a.shape,
        [k \in 1..Len(a.data) |->
            LET idx == Unravel(a.shape, k - 1)
            IN  IF idx[1] = tt THEN NdAt(p, Tail(idx)) ELSE a.data[k]])

\* mutant of OutputAxes: the transpose that swaps no axes
OutputAxesUnswapped == <<0, 1, 2, 3, 4>>

\* the permutation of the axes applied to the polarized output
OutputAxes == <<0, 1, 3, 2, 4>>

\* vis.shape = (ntimes, nfeed, nant, nfeed, nant); then the transpose of the
\* polarized mode, or vis[:, 0, :, 0, :] in the scalar mode
OutputOf(a, pol, nt, nf, na) ==
    LET a5 == NdReshape(a, <<nt, nf, na, nf, na>>)
        shape3 == <<nt, na, na>>
    IN  IF pol THEN NdTranspose(a5, OutputAxes)
        ELSE NdArray(shape3,
                [k \in 1..Prod(shape3) |->
                    LET idx == Unravel(shape3, k - 1)
                    IN  NdAt(a5, <<idx[1], 0, idx[2], 0, idx[3]>>)])

(***************************************************************************)
(* The calls of the model.                                                 *)
(***************************************************************************)
NoBeamIdx == [shape |-> <<0>>, data |-> <<>>]

\* a well-formed keyword call: the shapes agree with the data
BaseArgs(pol, na, sky, times, bl, freq) ==
    [ positional |-> FALSE, bm_cube |-> FALSE,
      beam_list_kw |-> "list", beam_list |-> bl,
      precision |-> 1, polarized |-> pol,
      beam_idx_kw |-> "None", beam_idx |-> NoBeamIdx,
      antpos_shape |-> <<na, 3>>, antpos |-> AntPosOf(na),
      freq |-> freq,
      eq2tops_shape |-> <<Len(times), 3, 3>>, eq2tops |-> times,
      crd_eq_shape |-> <<3, Len(sky)>>, crd_eq |-> CrdEqOf(sky),
      I_sky_shape |-> <<Len(sky)>>, I_sky |-> ISkyOf(sky) ]

\* beam lists with one beam, or one beam per antenna (the beams of the
\* antennas alternate between two beams of S)
BeamLists(S, na) ==
    [1..1 -> S]
    \cup (IF na <= MaxBeam
          THEN { [a \in 1..na |-> IF a % 2 = 1 THEN b1 ELSE b2] : b1 \in S, b2 \in S }
          ELSE {})

\* the rotation sequences under which every sky model is tried, and the sky
\* models under which every rotation sequence is tried
RefTimes == {<<RotId, RotFlip>>, <<RotFlip, RotId>>}
RefSkies == {<<1, 2>>, <<3, 4>>}

\* calls with a well-formed configuration: the number of antennas and the
\* beam responses vary, together with the sky model or with the sequence of
\* rotation matrices
NumCall ==
    \E pol \in BOOLEAN, na \in 1..MaxAnt :
        \E bl \in BeamLists(IF pol THEN EfieldBeams ELSE PowerBeams, na) :
            \/ \E sky \in Skies, times \in RefTimes :
                  args = BaseArgs(pol, na, sky, times, bl, 1)
            \/ \E sky \in RefSkies, times \in SeqsUpTo(RotSet, MaxTime) :
                  args = BaseArgs(pol, na, sky, times, bl, 1)

\* the beam-index maps tried for n entries and nb beams
BeamIdxChoices(n, nb) ==
    { [shape |-> <<n>>, data |-> d] :
        d \in { [i \in 1..n |-> 0],
                [i \in 1..n |-> IF i = n /\ nb > 0 THEN nb - 1 ELSE 0],
                [i \in 1..n |-> IF i = n THEN -1 ELSE 0],
                [i \in 1..n |-> IF i = n THEN nb ELSE 0] } }
    \cup { [shape |-> <<n, 1>>, data |-> [i \in 1..n |-> 0]] }

\* calls whose beam configuration varies: any number of beams of any type,
\* without a beam-index map or with one
CfgCall ==
    \E pol \in BOOLEAN, na \in 1..MaxAnt :
        \E bl \in SeqsUpTo(AnyBeams, MaxBeam) :
            \/ args = BaseArgs(pol, na, <<1>>, <<RotId>>, bl, 1)
            \/ \E n \in {na, na + 1} : \E bi \in BeamIdxChoices(n, Len(bl)) :
                  args = [BaseArgs(pol, na, <<1>>, <<RotId>>, bl, 1)
                            EXCEPT !.beam_idx_kw = "array", !.beam_idx = bi]

\* the shape defects tried: each changes the shape of one array argument
ShapeDefects ==
    { "none", "antpos_cols", "antpos_ndim", "eq2tops_cols", "eq2tops_ndim",
      "crd_eq_rows", "I_sky_len", "I_sky_ndim" }

WithDefect(a, d) ==
    CASE d = "antpos_cols" -> [a EXCEPT !.antpos_shape = <<a.antpos_shape[1], 2>>]
      [] d = "antpos_ndim" -> [a EXCEPT !.antpos_shape = <<a.antpos_shape[1]>>]
      [] d = "eq2tops_cols" -> [a EXCEPT !.eq2tops_shape = <<a.eq2tops_shape[1], 3, 2>>]
      [] d = "eq2tops_ndim" -> [a EXCEPT !.eq2tops_shape = <<3, 3>>]
      [] d = "crd_eq_rows" -> [a EXCEPT !.crd_eq_shape = <<2, a.crd_eq_shape[2]>>]
      [] d = "I_sky_len" -> [a EXCEPT !.I_sky_shape = <<a.I_sky_shape[1] + 1>>]
      [] d = "I_sky_ndim" -> [a EXCEPT !.I_sky_shape = <<a.I_sky_shape[1], 1>>]
      [] OTHER -> a

\* calls whose way of passing the arguments varies: positional arrays and
\* bm_cube as in the test suite, beam_list given, None or left out, the
\* precision selector, and the shapes of the arrays
BindCall ==
    \E pol \in BOOLEAN, pos \in BOOLEAN, cube \in BOOLEAN,
       kw \in {"absent", "None", "list"}, prec \in {1, 2, 3}, d \in ShapeDefects :
        args = [WithDefect(BaseArgs(pol, MaxAnt, <<1, 2>>, <<RotId, RotFlip>>,
                                    IF pol THEN <<ETaper>> ELSE <<PTaper>>, 1), d)
                  EXCEPT !.positional = pos, !.bm_cube = cube,
                         !.beam_list_kw = kw,
                         !.beam_list = IF kw = "list" THEN @ ELSE <<>>,
                         !.precision = prec]

\* calls in which the frequency varies and the east coordinate of the last
\* antenna may be infinite
PhysCall ==
    \E pol \in BOOLEAN, na \in 1..MaxAnt, sky \in Skies, rot \in RotSet,
       freq \in {1, 2, 3}, east \in {Fin(1), PInf} :
        args = [BaseArgs(pol, na, sky, <<rot>>,
                         IF pol THEN <<EUnit>> ELSE <<PUnit>>, freq)
                  EXCEPT !.antpos[na][1] = east]

(***************************************************************************)
(* The call as a state machine.                                            *)
(***************************************************************************)
NoWork == [rot |-> 0, beam |-> 0, tau |-> 0, vant |-> 0, prod |-> 0]

Init ==
    /\ (NumCall \/ CfgCall \/ BindCall \/ PhysCall)
    /\ pc = "call"
    /\ err = NoErr
    /\ nax = 0 /\ nfeed = 0 /\ nant = 0 /\ ntimes = 0
    /\ complex_dtype = ""
    /\ beam_list = <<>> /\ nbeam = 0 /\ beam_idx = <<>>
    /\ Isqrt = <<>> /\ antpos = <<>> /\ crd_eq = <<>> /\ ang_freq = Fin(0)
    /\ vis = EmptyNd
    /\ t = 0
    /\ crd_top = <<>> /\ above_horizon = <<>> /\ tx = <<>> /\ ty = <<>>
    /\ nsrcs_up = 0 /\ isqrt = <<>>
    /\ A_s = EmptyNd /\ tau = <<>> /\ v = EmptyNd
    /\ result = EmptyNd
    /\ work = NoWork

\* an exception leaves vis_cpu: no value is returned
Raise(kind) ==
    /\ pc' = "error"
    /\ err' = Raised(kind, pc)

\* the call itself: Python binds the arguments to the parameters
Call ==
    /\ pc = "call"
    /\ IF BindFails(args) THEN Raise("TypeError")
       ELSE pc' = "validate" /\ err' = err
    /\ UNCHANGED <<args, dimV, beamV, setupV, vis, t, rotV, A_s, tau, v, result, work>>

\* _validate_inputs and the choice of the dtypes
ValidateInputs ==
    /\ pc = "validate"
    /\ IF ValidateError(args) # ""
       THEN /\ Raise(ValidateError(args))
            /\ UNCHANGED dimV
       ELSE /\ pc' = "wrangle" /\ err' = err
            /\ nax' = NumFeeds(args.polarized)
            /\ nfeed' = NumFeeds(args.polarized)
            /\ nant' = args.antpos_shape[1]
            /\ ntimes' = args.eq2tops_shape[1]
            /\ complex_dtype' = IF args.precision = 1 THEN "complex64" ELSE "complex128"
    /\ UNCHANGED <<args, beamV, setupV, vis, t, rotV, A_s, tau, v, result, work>>

\* _wrangle_beams
Wrangle ==
    /\ pc = "wrangle"
    /\ LET w == WrangleBeams(args, nant)
       IN  IF w.err # ""
           THEN /\ Raise(w.err)
                /\ UNCHANGED beamV
           ELSE /\ pc' = "setup" /\ err' = err
                /\ beam_list' = w.beam_list
                /\ nbeam' = w.nbeam
                /\ beam_idx' = w.beam_idx
    /\ UNCHANGED <<args, dimV, setupV, vis, t, rotV, A_s, tau, v, result, work>>

\* Isqrt, the casts, ang_freq and the zero array of the visibilities.  The
\* casts to the selected dtype keep the small integers of the model.
Setup ==
    /\ pc = "setup"
    /\ Isqrt' = IsqrtOf(args.I_sky)
    /\ antpos' = args.antpos
    /\ ang_freq' = AngFreq(args.freq)
    /\ vis' = NdZeros(<<ntimes, nfeed * nant, nfeed * nant>>)
    /\ crd_eq' = args.crd_eq
    /\ t' = 0
    /\ pc' = "loop"
    /\ UNCHANGED <<args, err, dimV, beamV, rotV, A_s, tau, v, result, work>>

\* the head of an iteration: the rotation into the topocentric frame and
\* the selection of the sources above the horizon
Rotate ==
    /\ pc = "loop"
    /\ t < ntimes
    /\ LET top == MatDot(args.eq2tops[t + 1], crd_eq, Len(Isqrt))
           up == AboveHorizon(top[3])
       IN  /\ crd_top' = top
           /\ above_horizon' = up
           /\ tx' = Mask(top[1], up)
           /\ ty' = Mask(top[2], up)
           /\ nsrcs_up' = Len(Mask(top[1], up))
           /\ isqrt' = Mask(Isqrt, up)
    /\ v' = NdZeros(<<nant, Len(tx')>>)
    /\ work' = [work EXCEPT !.rot = @ + 1]
    /\ pc' = "beam"
    /\ UNCHANGED <<args, err, dimV, beamV, setupV, vis, t, A_s, tau, result>>

\* _evaluate_beam_cpu and the transpose of its result
EvaluateBeam ==
    /\ pc = "beam"
    /\ work' = [work EXCEPT !.beam = @ + 1]
    /\ LET r == EvaluateBeamCpu(beam_list, tx, ty, args.polarized, nbeam,
                                nax, nfeed, nsrcs_up)
       IN  IF ~r.ok
           THEN /\ Raise("ValueError")
                /\ UNCHANGED A_s
           ELSE /\ A_s' = NdTranspose(r.A_s, <<1, 2, 0, 3>>)
                /\ pc' = "tau" /\ err' = err
    /\ UNCHANGED <<args, dimV, beamV, setupV, vis, t, rotV, tau, v, result>>

\* the delays tau = np.dot(antpos / c, crd_top[:, above_horizon])
Delays ==
    /\ pc = "tau"
    /\ tau' = MatDot(antpos, [c \in 1..3 |-> Mask(crd_top[c], above_horizon)],
                     nsrcs_up)
    /\ work' = [work EXCEPT !.tau = @ + 1]
    /\ pc' = "vant"
    /\ UNCHANGED <<args, err, dimV, beamV, setupV, vis, t, rotV, A_s, v, result>>

\* get_antenna_vis; numpy raises IndexError for an index outside the beams
AntennaVis ==
    /\ pc = "vant"
    /\ work' = [work EXCEPT !.vant = @ + 1]
    /\ IF \E a \in 1..Len(beam_idx) : ~IndexOK(beam_idx[a], nbeam)
       THEN /\ Raise("IndexError")
            /\ UNCHANGED v
       ELSE /\ v' = GetAntennaVis(A_s, ang_freq, tau, isqrt, beam_idx,
                                  nfeed, nant, nax, nsrcs_up)
            /\ pc' = "product" /\ err' = err
    /\ UNCHANGED <<args, dimV, beamV, setupV, vis, t, rotV, A_s, tau, result>>

\* vis[t] = v.conj().dot(v.T), and the step to the next time sample
Product ==
    /\ pc = "product"
    /\ vis' = SetSlice(vis, t, ConjDot(v))
    /\ t' = t + 1
    /\ work' = [work EXCEPT !.prod = @ + 1]
    /\ pc' = "loop"
    /\ UNCHANGED <<args, err, dimV, beamV, setupV, rotV, A_s, tau, v, result>>

\* after the last time sample: the reshape and the returned view
Return ==
    /\ pc = "loop"
    /\ t = ntimes
    /\ result' = OutputOf(vis, args.polarized, ntimes, nfeed, nant)
    /\ pc' = "done"
    /\ UNCHANGED <<args, err, dimV, beamV, setupV, vis, t, rotV, A_s, tau, v, work>>

Next ==
    \/ Call
    \/ ValidateInputs
    \/ Wrangle
    \/ Setup
    \/ Rotate
    \/ EvaluateBeam
    \/ Delays
    \/ AntennaVis
    \/ Product
    \/ Return

Spec == Init /\ [][Next]_vars

(***************************************************************************)
(* Reference definitions for the properties: what the inputs of a call     *)
(* say, independently of the state the call is in.                         *)
(***************************************************************************)
Terminal == pc \in {"done", "error"}
LoopPcs == {"loop", "beam", "tau", "vant", "product"}

NAnt(a) == a.antpos_shape[1]
NTime(a) == a.eq2tops_shape[1]
NSrc(a) == Len(a.I_sky)
NFeed(a) == IF a.polarized THEN 2 ELSE 1

\* the shapes and the precision selector of the documented interface
ShapesValid(a) ==
    /\ a.precision \in {1, 2}
    /\ Len(a.antpos_shape) = 2 /\ a.antpos_shape[2] = 3
    /\ Len(a.eq2tops_shape) = 3 /\ a.eq2tops_shape[2] = 3 /\ a.eq2tops_shape[3] = 3
    /\ Len(a.crd_eq_shape) = 2 /\ a.crd_eq_shape[1] = 3
    /\ a.I_sky_shape = <<a.crd_eq_shape[2]>>

\* a beam that suits the polarization mode: an electric-field beam in the
\* polarized mode, a power beam with the single polarization xx (-5) or
\* yy (-6) in the scalar mode
BeamSuits(pol, b) ==
    IF pol THEN b.beam_type = "efield"
    ELSE /\ b.beam_type = "power"
         /\ b.Npols = 1
         /\ b.polarization_array[1] \in {-5, -6}

\* the beam-index map is absent with 1 or N_ant beams, or has length N_ant
\* and values in [0, N_beam)
BeamIdxValid(a) ==
    IF a.beam_idx_kw = "None" THEN Len(a.beam_list) \in {1, NAnt(a)}
    ELSE /\ a.beam_idx.shape = <<NAnt(a)>>
         /\ \A k \in 1..Len(a.beam_idx.data) :
               a.beam_idx.data[k] \in 0..(Len(a.beam_list) - 1)

\* a beam whose response is finite (and, for a power beam, non-negative) in
\* every direction
FiniteBeam(b) == b.resp \in {"unit", "taper", "eunit", "etaper"}

\* a valid input: a keyword call with a beam list, valid shapes, a valid
\* beam configuration, finite positions, non-negative intensities and
\* finite beams
ValidInput(a) ==
    /\ ~a.positional /\ ~a.bm_cube /\ a.beam_list_kw = "list"
    /\ ShapesValid(a)
    /\ BeamIdxValid(a)
    /\ \A i \in 1..Len(a.beam_list) :
          BeamSuits(a.polarized, a.beam_list[i]) /\ FiniteBeam(a.beam_list[i])
    /\ \A i \in 1..Len(a.antpos) : \A c \in 1..3 : IsFinite(a.antpos[i][c])
    /\ \A s \in 1..NSrc(a) : IsFinite(a.I_sky[s]) /\ a.I_sky[s].n >= 0

\* the topocentric coordinates of source s (from 1) under the rotation rot
TopCrd(rot, a, s) ==
    [c \in 1..3 |-> XSum([k \in 1..3 |-> XMul(rot[c][k], a.crd_eq[k][s])])]

\* source s is above the horizon under rot: its up component is > 0
IsUp(rot, a, s) == TopCrd(rot, a, s)[3].k = "fin" /\ TopCrd(rot, a, s)[3].n > 0

\* source s is at or below the horizon under rot: its up component is <= 0
IsDown(rot, a, s) == TopCrd(rot, a, s)[3].k = "fin" /\ TopCrd(rot, a, s)[3].n <= 0

UpCount(rot, a) == Cardinality({s \in 1..NSrc(a) : IsUp(rot, a, s)})

\* the one element of a singleton set
The(S) == CHOOSE x \in S : TRUE

RECURSIVE Elements(_, _)
\* the first n elements of the array data f, as a tuple
Elements(f, n) == IF n = 0 THEN <<>> ELSE Append(Elements(f, n - 1), f[n])

\* the array nd with every element computed
Computed(nd) ==
    The({NdArray(x.shape, Elements(x.data, Len(x.data))) : x \in {nd}})

\* the product matrix of one time sample: what the rotation matrix rot and
\* the time-invariant inputs of the call a determine, each array of the
\* iteration being computed in turn from the one before
SliceOf(rot, a) ==
    LET top == MatDot(rot, a.crd_eq, NSrc(a))
        up == AboveHorizon(top[3])
        e == Mask(top[1], up)
        n == Mask(top[2], up)
        nup == Len(e)
        nf == NumFeeds(a.polarized)
        w == WrangleBeams(a, NAnt(a))
        dly == MatDot(a.antpos, [c \in 1..3 |-> Mask(top[c], up)], nup)
    IN  The({Computed(ConjDot(vm)) :
             vm \in {Computed(GetAntennaVis(NdTranspose(r.A_s, <<1, 2, 0, 3>>),
                                            AngFreq(a.freq), dly,
                                            Mask(IsqrtOf(a.I_sky), up),
                                            w.beam_idx, nf, NAnt(a), nf, nup)) :
                     r \in {EvaluateBeamCpu(w.beam_list, e, n, a.polarized,
                                            w.nbeam, nf, nf, nup)}}})

\* slice tt of a three-dimensional array, as a matrix
SliceAt(a3, tt) ==
    NdArray(Tail(a3.shape),
            SubSeq(a3.data, tt * Prod(Tail(a3.shape)) + 1,
                   (tt + 1) * Prod(Tail(a3.shape))))

RECURSIVE SlicesOf(_, _)
\* the product matrices of the first n time samples of the call a, in order
SlicesOf(a, n) ==
    IF n = 0 THEN <<>>
    ELSE SlicesOf(a, n - 1) \o SliceOf(a.eq2tops[n], a).data

\* the whole output that the inputs of the call a determine
OutputFor(a) ==
    LET m == NFeed(a) * NAnt(a)
    IN  The({OutputOf(NdArray(<<NTime(a), m, m>>, d),
                      a.polarized, NTime(a), NFeed(a), NAnt(a)) :
             d \in {SlicesOf(a, NTime(a))}})

\* the sequence s without its element at position i
DropAt(s, i) == SubSeq(s, 1, i - 1) \o SubSeq(s, i + 1, Len(s))

\* the call a with source s removed from the sky model
RemoveSource(a, s) ==
    [a EXCEPT !.crd_eq = [c \in 1..3 |-> DropAt(a.crd_eq[c], s)],
              !.crd_eq_shape = <<3, NSrc(a) - 1>>,
              !.I_sky = DropAt(a.I_sky, s),
              !.I_sky_shape = <<NSrc(a) - 1>>]

(***************************************************************************)
(* Properties.                                                             *)
(***************************************************************************)

C2_ErrorOrFinite ==
    pc = "done" => \A k \in 1..Len(result.data) : CIsFinite(result.data[k])

\* C3: a call that supplies both beam sources, or neither, is rejected
\* before any computation, and a call that supplies only the pixel-grid beam
\* cube (and is valid otherwise) is accepted and computed
C3_ExactlyOneBeamSource ==
    LET cube == args.bm_cube
        list == args.beam_list_kw = "list"
    IN  Terminal =>
            /\ (cube /\ list) => (pc = "error" /\ work = NoWork)
            /\ (~cube /\ ~list) => (pc = "error" /\ work = NoWork)
            /\ (cube /\ ~list /\ ~args.positional /\ ShapesValid(args)) => pc = "done"

\* C4: whenever the time loop starts the beam-index map has length N_ant
\* and values in [0, N_beam); without a supplied map it is all zeros for
\* one beam and antenna a -> a for N_ant beams, and the call fails for any
\* other number of beams; a supplied map of another length or with a value
\* outside [0, N_beam) makes the call fail before any computation
C4_BeamIndexMap ==
    LET N == NAnt(args)
        NB == Len(args.beam_list)
        supplied == args.beam_idx_kw # "None"
        inloop == pc \in LoopPcs \cup {"done"}
    IN  /\ inloop =>
            /\ Len(beam_idx) = N /\ nbeam = NB
            /\ \A a \in 1..N : 0 <= beam_idx[a] /\ beam_idx[a] < NB
        /\ (inloop /\ ~supplied) =>
            /\ NB = 1 => \A a \in 1..N : beam_idx[a] = 0
            /\ NB = N => \A a \in 1..N : beam_idx[a] = a - 1
        /\ (~supplied /\ NB \notin {1, N}) =>
            /\ ~inloop /\ work = NoWork
            /\ Terminal => pc = "error"
        /\ (supplied /\ (\/ args.beam_idx.shape # <<N>>
                         \/ \E k \in 1..Len(args.beam_idx.data) :
                               \/ args.beam_idx.data[k] < 0
                               \/ args.beam_idx.data[k] >= NB)) =>
            /\ ~inloop /\ work = NoWork
            /\ Terminal => pc = "error"

\* C4 witness: the loop has started with a supplied map that sends the
\* last of two antennas to the last of two beams
C4_Witness ==
    /\ pc = "loop" /\ args.beam_idx_kw = "array"
    /\ nant = 2 /\ nbeam = 2 /\ beam_idx = <<0, 1>>

\* C5: if a beam of the list does not suit the polarization mode (not an
\* electric-field beam in the polarized mode; not a power beam with the
\* single polarization xx or yy in the scalar mode) the call raises an error
\* before the first time sample: no rotation, beam evaluation, delay,
\* voltage or product is executed
C5_BeamTypeFailsFast ==
    (/\ args.beam_list_kw = "list"
     /\ \E i \in 1..Len(args.beam_list) : ~BeamSuits(args.polarized, args.beam_list[i]))
    => /\ pc \in {"call", "validate", "wrangle", "error"}
       /\ work = NoWork
       /\ result = EmptyNd

\* C5 witness: a call whose beam-index map is valid and whose second beam
\* alone does not suit the scalar mode has been rejected by _wrangle_beams
C5_Witness ==
    /\ pc = "error" /\ err = Raised("ValueError", "wrangle")
    /\ ~args.polarized /\ BeamIdxValid(args) /\ Len(args.beam_list) = 2
    /\ BeamSuits(FALSE, args.beam_list[1]) /\ ~BeamSuits(FALSE, args.beam_list[2])
    /\ work = NoWork

\* the beam list evaluates to an infinite or nan amplitude for a source that
\* is above the horizon under rot
BadAmplitude(rot, a) ==
    \E b \in 1..Len(a.beam_list) : \E s \in 1..NSrc(a) :
        /\ IsUp(rot, a, s)
        /\ LET dir == enu_to_az_za(TopCrd(rot, a, s)[1], TopCrd(rot, a, s)[2])
           IN  IF a.polarized
               THEN \E ax \in Idx(2), feed \in Idx(2) :
                       ~CIsFinite(BeamResponse(a.beam_list[b], ax, feed, dir))
               ELSE ~IsFinite(XSqrt(BeamResponse(a.beam_list[b], 0, 0, dir).re))

\* C6: if at a time sample a beam evaluates to an infinite or nan amplitude
\* for a visible source, the call raises an error in that sample's beam
\* evaluation, before that sample's voltage matrix and product are formed,
\* and returns nothing
C6_NonFiniteBeamRaises ==
    /\ pc \in {"tau", "vant", "product"} => ~BadAmplitude(args.eq2tops[t + 1], args)
    /\ pc \in {"loop", "done"} =>
          \A u \in Idx(t) : ~BadAmplitude(args.eq2tops[u + 1], args)
    /\ (pc = "error" /\ err.stage = "beam") =>
          /\ BadAmplitude(args.eq2tops[t + 1], args)
          /\ work.tau = t /\ work.vant = t /\ work.prod = t
    /\ pc = "error" => result = EmptyNd
    /\ pc = "done" => t = NTime(args)

\* C6 witness: the second time sample's beam evaluation has raised, after a
\* first time sample that was computed
C6_Witness ==
    /\ pc = "error" /\ err = Raised("ValueError", "beam")
    /\ t = 1 /\ work.prod = 1
    /\ BadAmplitude(args.eq2tops[2], args)
    /\ ~BadAmplitude(args.eq2tops[1], args)

\* C7: at each time sample the sources whose up component is <= 0 take no
\* part in the beam evaluation, the delays and the voltages, and contribute
\* exactly zero: a time sample without a source above the horizon gives an
\* all-zero slice, and removing a source that is at or below the horizon at
\* every time sample leaves the output unchanged
C7_HorizonExclusion ==
    /\ pc \in {"beam", "tau", "vant", "product"} =>
          LET nup == UpCount(args.eq2tops[t + 1], args)
          IN  /\ nsrcs_up = nup /\ Len(tx) = nup /\ Len(ty) = nup /\ Len(isqrt) = nup
              /\ pc \in {"tau", "vant", "product"} => A_s.shape = <<nfeed, nbeam, nax, nup>>
              /\ pc \in {"vant", "product"} => \A a \in 1..nant : Len(tau[a]) = nup
              /\ pc = "product" => v.shape = <<nfeed * nant, nax * nup>>
    /\ pc = "done" =>
          /\ \A tt \in Idx(ntimes) :
                UpCount(args.eq2tops[tt + 1], args) = 0 =>
                    \A k \in 1..Len(result.data) :
                        Unravel(result.shape, k - 1)[1] = tt => result.data[k] = CZero
          /\ \A s \in 1..NSrc(args) :
                (\A tt \in 1..ntimes : IsDown(args.eq2tops[tt], args, s)) =>
                    result = OutputFor(RemoveSource(args, s))

\* C7 witness: a call has returned a non-zero result for a sky in which one
\* source lies exactly on the horizon at every time sample
C7_Witness ==
    /\ pc = "done" /\ ntimes = 2
    /\ \E s \in 1..NSrc(args) :
          \A tt \in 1..ntimes : TopCrd(args.eq2tops[tt], args, s)[3] = Fin(0)
    /\ \E k \in 1..Len(result.data) : result.data[k] # CZero

\* C8: every time sample of the output is Hermitian over the combined
\* (feed, antenna) index, so every auto-correlation is real
C8_Hermitian ==
    pc = "done" =>
        LET N == NAnt(args)
            F == NFeed(args)
            out(tt, p, q, i, j) ==
                IF args.polarized THEN NdAt(result, <<tt, p, q, i, j>>)
                ELSE NdAt(result, <<tt, i, j>>)
        IN  \A tt \in Idx(NTime(args)) : \A p \in Idx(F), q \in Idx(F) :
               \A i \in Idx(N), j \in Idx(N) :
                  /\ CEq(out(tt, p, q, i, j), CConj(out(tt, q, p, j, i)))
                  /\ (p = q /\ i = j) => out(tt, p, q, i, j).im = Fin(0)

\* C8 on finite outputs: where the result holds no nan, each time sample is
\* Hermitian and each auto-correlation is real
C8_HermitianWhereFinite ==
    (pc = "done" /\ \A k \in 1..Len(result.data) : CIsFinite(result.data[k]))
    => C8_Hermitian

\* C9 as stated: the slice written for a time sample is V . V^H: entry
\* (i, j) is the sum over k of V[i, k] times the conjugate of V[j, k]
C9_SliceIsVVH ==
    (pc = "loop" /\ t > 0) =>
        \A i \in Idx(v.shape[1]), j \in Idx(v.shape[1]) :
            NdAt(vis, <<t - 1, i, j>>)
                = CSum([k \in 1..v.shape[2] |->
                        CMul(NdAt(v, <<i, k - 1>>), CConj(NdAt(v, <<j, k - 1>>)))])

\* C9 as amended: the slice written for a time sample is conj(V) . V^T,
\* the transpose of V . V^H: entry (i, j) is the sum over k of the conjugate
\* of V[i, k] times V[j, k], row j dotted with the conjugate of row i
C9_SliceIsConjVVT ==
    (pc = "loop" /\ t > 0) =>
        \A i \in Idx(v.shape[1]), j \in Idx(v.shape[1]) :
            NdAt(vis, <<t - 1, i, j>>)
                = CSum([k \in 1..v.shape[2] |->
                        CMul(CConj(NdAt(v, <<i, k - 1>>)), NdAt(v, <<j, k - 1>>))])

\* C9 witness: a slice with an entry that is not real has been written
C9_Witness ==
    /\ pc = "loop" /\ t > 0 /\ v.shape[2] > 0
    /\ \E i \in Idx(v.shape[1]), j \in Idx(v.shape[1]) :
          /\ CIsFinite(NdAt(vis, <<t - 1, i, j>>))
          /\ NdAt(vis, <<t - 1, i, j>>).im # Fin(0)

\* a step inside the time loop changes no slice of vis, except that the
\* product of time sample t changes slice t
WritesOnlyOwnSlice ==
    pc \in LoopPcs =>
        \A u \in Idx(ntimes) :
            (pc = "product" /\ u = t) \/ SliceAt(vis', u) = SliceAt(vis, u)

\* C10: iteration t writes only slice t of the output and leaves every
\* other slice unchanged, and slice t is what rotation matrix t and the
\* time-invariant inputs determine, so the slices follow the order of the
\* rotation matrices
C10_TimeSamplesIndependent ==
    /\ [](pc \in {"loop", "done"} =>
             \A u \in Idx(t) :
                 SliceAt(vis, u) = SliceOf(args.eq2tops[u + 1], args))
    /\ [][WritesOnlyOwnSlice]_vars

\* C10 witness: a call with two different rotation matrices has returned two
\* different slices
C10_Witness ==
    /\ pc = "done" /\ ntimes = 2
    /\ args.eq2tops[1] # args.eq2tops[2]
    /\ SliceAt(vis, 0) # SliceAt(vis, 1)
    /\ \E k \in 1..Len(vis.data) : vis.data[k] # CZero
====
